---- MODULE Spec2Model ----
(***************************************************************************)
(* A model of nmap_xml_parser.py: the extraction of deprecated-TLS         *)
(* findings from Nmap XML scan output, the batch aggregation, the CSV and  *)
(* JSON exporters, the spreadsheet derivation and the domain dump.         *)
(*                                                                         *)
(* Text is modelled by TLA+ strings, taken apart character by character    *)
(* with Len and SubSeq.  An XML element is a record                        *)
(*     [tag, attrib, children]                                             *)
(* where attrib is a set of <<name, value>> pairs and children a sequence  *)
(* of elements in document order.                                          *)
(***************************************************************************)
EXTENDS Integers, Sequences, FiniteSets, TLC

VARIABLES
    fs,         \* the file system: a function from the existing paths to files
    writable,   \* whether a file can be opened for writing in the output directory
    clock,      \* what datetime.now().strftime(...) returns when it is read
    pc,         \* the position of the entry-point script
    xml_files,  \* the input path list
    idx,        \* how many paths of xml_files parse_multiple_files has processed
    all_hosts,  \* the records aggregated so far (main's hosts when the loop ends)
    csv_name,   \* what export_to_csv returned
    exc,        \* the exception that escaped to the caller, "" when none did
    stdout      \* the messages printed, in order

vars == <<fs, writable, clock, pc, xml_files, idx, all_hosts, csv_name, exc, stdout>>

-----------------------------------------------------------------------------
(* Bounds of the model.                                                    *)

MaxHosts == 2
MaxPorts == 2
MaxTokens == 3
MaxFiles == 2
MaxRecs == 2

-----------------------------------------------------------------------------
(* Strings.                                                                *)

Char(s, i) == SubSeq(s, i, i)

Range(seq) == {seq[i] : i \in DOMAIN seq}

\* the decimal digit of i in 0..9
Digit(i) == Char("0123456789", i + 1)

\* Python's `sub in s`
Contains(s, sub) ==
    \E i \in 1..(Len(s) - Len(sub) + 1) : SubSeq(s, i, i + Len(sub) - 1) = sub

RECURSIVE JoinFrom(_, _, _)
JoinFrom(sep, seq, i) ==
    IF i > Len(seq) THEN ""
    ELSE IF i = Len(seq) THEN seq[i]
    ELSE seq[i] \o sep \o JoinFrom(sep, seq, i + 1)

\* Python's sep.join(seq)
Join(sep, seq) == JoinFrom(sep, seq, 1)

\* the position of the first occurrence of the character c in s at or after i,
\* Len(s) + 1 when there is none
RECURSIVE IndexFrom(_, _, _)
IndexFrom(s, c, i) ==
    IF i > Len(s) THEN Len(s) + 1
    ELSE IF Char(s, i) = c THEN i
    ELSE IndexFrom(s, c, i + 1)

\* the position of the last occurrence of the character c in s at or before i,
\* 0 when there is none
RECURSIVE LastIndexFrom(_, _, _)
LastIndexFrom(s, c, i) ==
    IF i < 1 THEN 0
    ELSE IF Char(s, i) = c THEN i
    ELSE LastIndexFrom(s, c, i - 1)

\* os.path.splitext(p)[0] of a path without directory part: the text before the
\* last dot, the whole name when it has no dot or only a leading one
SplitextRoot(p) ==
    LET d == LastIndexFrom(p, ".", Len(p))
    IN  IF d <= 1 THEN p ELSE SubSeq(p, 1, d - 1)

-----------------------------------------------------------------------------
(* xml.etree.ElementTree elements.                                         *)

E(tag, attrib, children) == [tag |-> tag, attrib |-> attrib, children |-> children]

\* what find() returns when nothing matches; no element has an empty tag
None == E("", {}, <<>>)

HasAttr(e, key) == \E p \in e.attrib : p[1] = key

\* Element.get(key): <<>> for Python's None, <<value>> otherwise
Get(e, key) ==
    IF HasAttr(e, key) THEN <<(CHOOSE p \in e.attrib : p[1] = key)[2]>> ELSE <<>>

\* Element.get(key, default) with a string default
GetDefault(e, key, default) ==
    IF HasAttr(e, key) THEN (CHOOSE p \in e.attrib : p[1] = key)[2] ELSE default

\* Element.findall(path): path is the sequence of the tags of 'a/b/...'; the
\* matches in document order
RECURSIVE FindAll(_, _)
RECURSIVE FindAllIn(_, _, _)
FindAllIn(children, path, i) ==
    IF i > Len(children) THEN <<>>
    ELSE (IF children[i].tag = Head(path)
             THEN FindAll(children[i], Tail(path))
             ELSE <<>>)
         \o FindAllIn(children, path, i + 1)
FindAll(e, path) ==
    IF path = <<>> THEN <<e>> ELSE FindAllIn(e.children, path, 1)

\* Element.find(path): the first match or None
Find(e, path) ==
    LET found == FindAll(e, path)
    IN  IF found = <<>> THEN None ELSE found[1]

\* Element.iter(tag): the element itself and its descendants with that tag, in
\* document (pre-) order
RECURSIVE Iter(_, _)
RECURSIVE IterIn(_, _, _)
IterIn(children, tag, i) ==
    IF i > Len(children) THEN <<>>
    ELSE Iter(children[i], tag) \o IterIn(children, tag, i + 1)
Iter(e, tag) ==
    (IF e.tag = tag THEN <<e>> ELSE <<>>) \o IterIn(e.children, tag, 1)

-----------------------------------------------------------------------------
(* Files.                                                                  *)

\* kind: "xml" (well-formed, root is the document element), "malformed" (a
\* regular file that is not well-formed XML), "dir" (a directory), "text" (a
\* written text file, its content in text), "json" (a written JSON file, the
\* dumped value in sheet), "xlsx" (a written workbook, the rows of its sheet
\* in sheet)
File(kind, root, text, sheet) ==
    [kind |-> kind, root |-> root, text |-> text, sheet |-> sheet]

XmlFile(root) == File("xml", root, "", <<>>)
MalformedFile == File("malformed", None, "", <<>>)
Directory == File("dir", None, "", <<>>)
TextFile(text) == File("text", None, text, <<>>)
JsonFile(value) == File("json", None, "", value)
XlsxFile(sheet) == File("xlsx", None, "", sheet)

Exists(fsys, path) == path \in DOMAIN fsys

\* a variant of IsFile: os.path.exists
IsFileOrDirectory(fsys, path) == Exists(fsys, path)

\* os.path.isfile
IsFile(fsys, path) == Exists(fsys, path) /\ fsys[path].kind # "dir"

\* ET.parse(path): the root, or the exception it raises
ETparse(fsys, path) ==
    IF ~Exists(fsys, path) THEN [root |-> None, exc |-> "FileNotFoundError"]
    ELSE IF fsys[path].kind = "dir" THEN [root |-> None, exc |-> "IsADirectoryError"]
    ELSE IF fsys[path].kind = "xml" THEN [root |-> fsys[path].root, exc |-> ""]
    ELSE [root |-> None, exc |-> "ParseError"]

\* open(path, 'w') succeeds
CanOpenForWriting(fsys, w, path) ==
    w /\ ~(Exists(fsys, path) /\ fsys[path].kind = "dir")

\* the file system after path was written
WriteFile(fsys, path, file) ==
    [p \in DOMAIN fsys \cup {path} |-> IF p = path THEN file ELSE fsys[p]]

-----------------------------------------------------------------------------
(* parse_ssl_vulnerabilities.                                              *)

\* a variant of CheckedProtocols: the list in the other order
CheckedProtocolsReversed == <<"TLSv1.1", "TLSv1.0">>

\* line 52: the protocol list the inner loop scans
CheckedProtocols == <<"TLSv1.0", "TLSv1.1">>

\* lines 51-54: the checked protocols that occur in output, in list order
MatchProtocols(output) ==
    SelectSeq(CheckedProtocols, LAMBDA proto : Contains(output, proto))

\* the script element a port is judged by
PortScript(port) == Find(port, <<"script">>)

\* lines 45-63: what one port appends to hosts
PortRecords(hostname, ip_addr, port) ==
    LET script == PortScript(port)
    IN  IF script = None THEN <<>>
        ELSE LET output == GetDefault(script, "output", "")
                 protocols == MatchProtocols(output)
             IN  IF protocols = <<>> THEN <<>>
                 ELSE << [host |-> hostname,
                          ip_addr |-> ip_addr,
                          port |-> GetDefault(port, "portid", "unknown"),
                          protocols |-> Join(" & ", protocols)] >>

\* a variant of HostPorts: line 42, the ports of the ports wrapper only
HostPortsShallow(host) == FindAll(host, <<"ports", "port">>)

\* line 44: the ports the inner loop visits
HostPorts(host) == Iter(host, "port")

RECURSIVE PortLoop(_, _, _, _)
PortLoop(hostname, ip_addr, ports, i) ==
    IF i > Len(ports) THEN <<>>
    ELSE PortRecords(hostname, ip_addr, ports[i])
         \o PortLoop(hostname, ip_addr, ports, i + 1)

\* lines 30-40: whether the host is skipped
HostSkipped(host) ==
    LET hostname_element == Find(host, <<"hostnames", "hostname">>)
        address_element == Find(host, <<"address">>)
    IN  \/ hostname_element = None
        \/ address_element = None
        \/ Get(hostname_element, "name") = <<>>
        \/ Get(address_element, "addr") = <<>>

\* a variant of HostRecords: the host is skipped only when both lookups fail,
\* and a failed lookup leaves None in the record
HostRecordsEitherLookup(host) ==
    LET hostname_element == Find(host, <<"hostnames", "hostname">>)
        address_element == Find(host, <<"address">>)
    IN  IF Get(hostname_element, "name") = <<>> /\ Get(address_element, "addr") = <<>>
        THEN <<>>
        ELSE PortLoop(GetDefault(hostname_element, "name", "None"),
                      GetDefault(address_element, "addr", "None"),
                      HostPorts(host), 1)

\* lines 30-63: what one host appends to hosts
HostRecords(host) ==
    IF HostSkipped(host) THEN <<>>
    ELSE PortLoop(Get(Find(host, <<"hostnames", "hostname">>), "name")[1],
                  Get(Find(host, <<"address">>), "addr")[1],
                  HostPorts(host), 1)

RECURSIVE HostLoop(_, _)
HostLoop(hostlist, i) ==
    IF i > Len(hostlist) THEN <<>>
    ELSE HostRecords(hostlist[i]) \o HostLoop(hostlist, i + 1)

\* lines 26-65: the records of a parsed document
ExtractRecords(root) == HostLoop(FindAll(root, <<"host">>), 1)

\* the whole function: its return value, what it prints, what it raises
parse_ssl_vulnerabilities(fsys, xml_path) ==
    IF ~IsFile(fsys, xml_path)
    THEN [hosts |-> <<>>, out |-> << <<"warn_not_exist", xml_path>> >>, exc |-> ""]
    ELSE LET tree == ETparse(fsys, xml_path)
         IN  IF tree.exc = "ParseError"
             THEN [hosts |-> <<>>, out |-> << <<"warn_format", xml_path>> >>, exc |-> ""]
             ELSE IF tree.exc # ""
             THEN [hosts |-> <<>>, out |-> <<>>, exc |-> tree.exc]
             ELSE [hosts |-> ExtractRecords(tree.root), out |-> <<>>, exc |-> ""]

-----------------------------------------------------------------------------
(* parse_multiple_files, one loop iteration at a time.                     *)

\* a variant of Extend: a record already aggregated is not appended again
ExtendDeduplicated(list, items) ==
    list \o SelectSeq(items, LAMBDA r : r \notin Range(list))

\* line 100: list.extend
Extend(list, items) == list \o items

\* lines 97-100: the next path of file_paths is parsed and its records appended
ParseFile ==
    /\ pc = "aggregate"
    /\ idx < Len(xml_files)
    /\ LET file_path == xml_files[idx + 1]
           r == parse_ssl_vulnerabilities(fs, file_path)
       IN  /\ stdout' = stdout \o << <<"parsing", file_path>> >> \o r.out
           /\ IF r.exc # ""
              THEN /\ exc' = r.exc
                   /\ pc' = "crashed"
                   /\ UNCHANGED <<all_hosts, idx>>
              ELSE /\ all_hosts' = Extend(all_hosts, r.hosts)
                   /\ idx' = idx + 1
                   /\ pc' = IF idx + 1 = Len(xml_files) THEN "export" ELSE "aggregate"
                   /\ exc' = exc
    /\ UNCHANGED <<fs, writable, clock, xml_files, csv_name>>

-----------------------------------------------------------------------------
(* The scan documents the extraction is checked on.  A document is built   *)
(* from a sequence of shapes, one per host or port, so that the i-th host  *)
(* and the j-th port carry their own name, address and port id.            *)

HostName(i) == "web0" \o Digit(i)
HostAddr(i) == "10.0.0." \o Digit(i)
PortId(j) == "44" \o Digit(j)

Hostname(attrib) == E("hostname", attrib, <<>>)
Hostnames(children) == E("hostnames", {}, children)
Address(attrib) == E("address", attrib, <<>>)
Script(attrib) == E("script", attrib, <<>>)
ScriptOut(output) == Script({<<"id", "ssl-enum-ciphers">>, <<"output", output>>})
Root(children) == E("nmaprun", {<<"scanner", "nmap">>}, children)

HostnameShapes ==
    {"none", "empty", "nameless", "named", "nameless first", "empty first"}

\* the hostnames part of the i-th host: absent, empty, without name, as Nmap
\* writes it, a nameless hostname before the named one, an empty hostnames
\* before the full one
HostnamesPart(i, shape) ==
    LET named == Hostname({<<"name", HostName(i)>>, <<"type", "user">>})
        nameless == Hostname({<<"type", "PTR">>})
    IN  CASE shape = "none" -> <<>>
          [] shape = "empty" -> <<Hostnames(<<>>)>>
          [] shape = "nameless" -> <<Hostnames(<<nameless>>)>>
          [] shape = "named" -> <<Hostnames(<<named>>)>>
          [] shape = "nameless first" -> <<Hostnames(<<nameless, named>>)>>
          [] shape = "empty first" -> <<Hostnames(<<>>), Hostnames(<<named>>)>>

AddressShapes == {"none", "no addr", "addr", "no addr first"}

\* the address part of the i-th host
AddressPart(i, shape) ==
    LET full == Address({<<"addr", HostAddr(i)>>, <<"addrtype", "ipv4">>})
    IN  CASE shape = "none" -> <<>>
          [] shape = "no addr" -> <<Address({<<"addrtype", "ipv4">>})>>
          [] shape = "addr" -> <<full>>
          [] shape = "no addr first" -> <<Address({<<"addrtype", "mac">>}), full>>

GoodHeader(i) == AddressPart(i, "addr") \o HostnamesPart(i, "named")

PortShapes ==
    {"no script", "no output", "no marker", "1.0", "1.1 then 1.0",
     "second script 1.1", "first script 1.0", "script below service", "no portid"}

\* the j-th port element: without script, with a script without output, with
\* outputs with and without markers, with several scripts, with a script
\* below a child of the port, without portid
PortElement(j, shape) ==
    LET attrib == IF shape = "no portid" THEN {<<"protocol", "tcp">>}
                  ELSE {<<"protocol", "tcp">>, <<"portid", PortId(j)>>}
        other == ScriptOut("Subject: commonName=x")
    IN  E("port", attrib,
          CASE shape = "no script" -> <<>>
            [] shape = "no output" -> <<Script({<<"id", "ssl-cert">>})>>
            [] shape = "no marker" -> <<ScriptOut("TLSv1.2 only")>>
            [] shape = "1.0" -> <<ScriptOut("TLSv1.0 and weak ciphers enabled")>>
            [] shape = "1.1 then 1.0" -> <<ScriptOut("TLSv1.1: ciphers; TLSv1.0: ciphers")>>
            [] shape = "second script 1.1" -> <<other, ScriptOut("TLSv1.1: ciphers")>>
            [] shape = "first script 1.0" -> <<ScriptOut("TLSv1.0: ciphers"), other>>
            [] shape = "script below service" ->
                   <<E("service", {}, <<ScriptOut("TLSv1.0: ciphers")>>)>>
            [] shape = "no portid" -> <<ScriptOut("TLSv1.1: ciphers")>>)

Placements == {"child of host", "in ports", "in ports/extraports", "in port"}

\* where a port sits under its host
Placed(port, placement) ==
    CASE placement = "child of host" -> port
      [] placement = "in ports" -> E("ports", {}, <<port>>)
      [] placement = "in ports/extraports" ->
             E("ports", {}, <<E("extraports", {}, <<port>>)>>)
      [] placement = "in port" -> E("port", {<<"portid", "1">>}, <<port>>)

MatchingPorts(i) == Placed(PortElement(i, "1.0"), "in ports")

\* the i-th host with a hostnames and an address part and one marked port
HostOf(i, shape) ==
    E("host", {}, HostnamesPart(i, shape[1]) \o AddressPart(i, shape[2])
                  \o <<MatchingPorts(i)>>)

\* the hosts of the shapes, as the children of the root
HostsDoc(shapes) == Root([i \in DOMAIN shapes |-> HostOf(i, shapes[i])])

\* a host that is not a child of the root
NestedHostDoc(shape) == Root(<<E("hosthint", {}, <<HostOf(1, shape)>>)>>)

\* one host with a hostnames and an address part and one port
HeaderPortDoc(shape, port, placement) ==
    Root(<<E("host", {}, HostnamesPart(1, shape[1]) \o AddressPart(1, shape[2])
                         \o <<Placed(PortElement(1, port), placement)>>)>>)

\* one full host with the ports of the shapes
PortsDoc(shapes) ==
    Root(<<E("host", {}, GoodHeader(1)
             \o [j \in DOMAIN shapes |-> Placed(PortElement(j, shapes[j][1]), shapes[j][2])])>>)

\* the pieces script outputs are made of
Tokens == {"TLSv1.0", "TLSv1.1", "TLSv1.", "tlsv1.0", "1", " "}

\* one full host with one port whose script has the tokens as its output
MatchDoc(tokens) ==
    Root(<<E("host", {}, GoodHeader(1)
             \o <<E("port", {<<"portid", "443">>}, <<ScriptOut(Join("", tokens))>>)>>)>>)

ScanFs(doc) == [p \in {"scan.xml"} |-> XmlFile(doc)]

\* parse_ssl_vulnerabilities is called on one scan document
InitExtract ==
    /\ \/ \E n \in 0..MaxHosts :
            \E shapes \in [1..n -> HostnameShapes \X AddressShapes] :
                fs = ScanFs(HostsDoc(shapes))
       \/ \E shape \in HostnameShapes \X AddressShapes :
            fs = ScanFs(NestedHostDoc(shape))
       \/ \E shape \in HostnameShapes \X AddressShapes, port \in PortShapes,
             placement \in Placements :
            fs = ScanFs(HeaderPortDoc(shape, port, placement))
       \/ \E n \in 0..MaxPorts :
            \E shapes \in [1..n -> PortShapes \X Placements] :
                fs = ScanFs(PortsDoc(shapes))
       \/ \E n \in 0..MaxTokens :
            \E tokens \in [1..n -> Tokens] :
                fs = ScanFs(MatchDoc(tokens))
    /\ writable = TRUE
    /\ clock = "20250625_120000"
    /\ pc = "aggregate"
    /\ xml_files = <<"scan.xml">>
    /\ idx = 0
    /\ all_hosts = <<>>
    /\ csv_name = ""
    /\ exc = ""
    /\ stdout = <<>>

NextExtract == ParseFile

SpecExtract == InitExtract /\ [][NextExtract]_vars

-----------------------------------------------------------------------------
(* export_to_csv, export_to_json, get_export_filename.                     *)

\* Python's str(n) for n >= 0
RECURSIVE IntToStr(_)
IntToStr(n) == IF n < 10 THEN Digit(n) ELSE IntToStr(n \div 10) \o Digit(n % 10)

\* line 115
CsvHeaders == <<"ID", "Host", "IP", "Port", "Vulnerable Protocols">>

\* a variant of CsvRow: the ordinal counted from 0
CsvRowFromZero(i, item) ==
    <<IntToStr(i - 1), item.host, item.ip_addr, item.port, item.protocols>>

\* lines 119-120: the row of the i-th record (i from 1)
CsvRow(i, item) == <<IntToStr(i), item.host, item.ip_addr, item.port, item.protocols>>

\* lines 118-121: the text the loop writes from the i-th record on
RECURSIVE CsvRowsFrom(_, _)
CsvRowsFrom(hosts, i) ==
    IF i > Len(hosts) THEN ""
    ELSE Join(",", CsvRow(i, hosts[i])) \o "\n" \o CsvRowsFrom(hosts, i + 1)

\* lines 115-121: everything written to the file
CsvText(hosts) == Join(",", CsvHeaders) \o "\n" \o CsvRowsFrom(hosts, 1)

\* lines 110-125: the file system afterwards, the messages, the return value,
\* the exception raised
export_to_csv(fsys, w, hosts, output_path) ==
    IF hosts = <<>>
    THEN [fs |-> fsys, out |-> << <<"no_data", "">> >>, ret |-> "", exc |-> ""]
    ELSE IF ~CanOpenForWriting(fsys, w, output_path)
    THEN [fs |-> fsys, out |-> <<>>, ret |-> "", exc |-> "OSError"]
    ELSE [fs |-> WriteFile(fsys, output_path, TextFile(CsvText(hosts))),
          out |-> << <<"exported", output_path>> >>,
          ret |-> output_path,
          exc |-> ""]

\* lines 134-141
export_to_json(fsys, w, hosts, output_path) ==
    IF hosts = <<>>
    THEN [fs |-> fsys, out |-> << <<"no_data", "">> >>, exc |-> ""]
    ELSE IF ~CanOpenForWriting(fsys, w, output_path)
    THEN [fs |-> fsys, out |-> <<>>, exc |-> "OSError"]
    ELSE [fs |-> WriteFile(fsys, output_path, JsonFile(hosts)),
          out |-> << <<"exported", output_path>> >>,
          exc |-> ""]

\* lines 151-152, timestamp being what strftime returned
get_export_filename(base_name, ext, timestamp) ==
    SplitextRoot(base_name) \o "_" \o timestamp \o "." \o ext

-----------------------------------------------------------------------------
(* csv_to_excel: pandas.read_csv with its defaults (separator ',', header   *)
(* in the first line, blank lines skipped, default NA strings, column type  *)
(* inference), then DataFrame.to_excel(index=False).  Quoting is not        *)
(* modelled: no text of the model holds a double quote.                     *)

\* s cut at every occurrence of the character c
RECURSIVE Split(_, _)
Split(s, c) ==
    LET i == IndexFrom(s, c, 1)
    IN  IF i > Len(s) THEN <<s>>
        ELSE <<SubSeq(s, 1, i - 1)>> \o Split(SubSeq(s, i + 1, Len(s)), c)

\* the lines the tokenizer sees: blank lines are skipped
CsvLines(text) == SelectSeq(Split(text, "\n"), LAMBDA l : l # "")

PadTo(fields, n) == fields \o [k \in 1..(n - Len(fields)) |-> ""]

\* the tokenizer's rows from line i on, `width` being the field count of the
\* line before: a line after the first data line with more fields is an error
\* (<<"ParserError">> ends the result), one with fewer is padded
RECURSIVE TokenizeFrom(_, _, _)
TokenizeFrom(lines, i, width) ==
    IF i > Len(lines) THEN <<>>
    ELSE LET fields == Split(lines[i], ",")
         IN  IF i > 2 /\ Len(fields) > width THEN << <<"ParserError">> >>
             ELSE LET row == PadTo(fields, width)
                  IN  <<row>> \o TokenizeFrom(lines, i + 1, Len(row))

\* pandas' default na_values
NaValues ==
    {"", "#N/A", "#N/A N/A", "#NA", "-1.#IND", "-1.#QNAN", "-NaN", "-nan",
     "1.#IND", "1.#QNAN", "<NA>", "N/A", "NA", "NULL", "NaN", "None", "n/a",
     "nan", "null"}

IsDigits(s) ==
    /\ Len(s) > 0
    /\ \A i \in 1..Len(s) : \E d \in 0..9 : Char(s, i) = Digit(d)

\* str(int(s)) of a digit string
RECURSIVE Canonical(_)
Canonical(s) ==
    IF Len(s) > 1 /\ Char(s, 1) = "0" THEN Canonical(SubSeq(s, 2, Len(s))) ELSE s

Cell(type, text) == [type |-> type, text |-> text]

\* the cell of value v in a column whose values are `column`: an NA string is
\* NaN, a column whose other values are all integers is numeric, anything else
\* keeps its text
InferCell(v, column) ==
    IF v \in NaValues THEN Cell("nan", "")
    ELSE IF \A u \in Range(column) : u \in NaValues \/ IsDigits(u)
    THEN Cell("number", Canonical(v))
    ELSE Cell("str", v)

\* pd.read_csv(csv_file): the frame (its column names and its rows of cells,
\* the implicit index columns left out as to_excel(index=False) leaves them
\* out), or the exception raised
read_csv(fsys, csv_file) ==
    IF ~Exists(fsys, csv_file)
    THEN [columns |-> <<>>, rows |-> <<>>, exc |-> "FileNotFoundError"]
    ELSE IF fsys[csv_file].kind # "text"
    THEN [columns |-> <<>>, rows |-> <<>>, exc |-> "Exception"]
    ELSE LET lines == CsvLines(fsys[csv_file].text)
         IN  IF lines = <<>>
             THEN [columns |-> <<>>, rows |-> <<>>, exc |-> "EmptyDataError"]
             ELSE
             LET header == Split(lines[1], ",")
                 tokens == TokenizeFrom(lines, 2, Len(header))
             IN  IF tokens # <<>> /\ tokens[Len(tokens)] = <<"ParserError">>
                 THEN [columns |-> <<>>, rows |-> <<>>, exc |-> "ParserError"]
                 ELSE
                 LET width == IF tokens = <<>> THEN Len(header) ELSE Len(tokens[1])
                     \* the data has more columns than the header: the first
                     \* ones are the index
                     leading == IF width > Len(header) THEN width - Len(header) ELSE 0
                     column(j) == [k \in DOMAIN tokens |-> tokens[k][j]]
                 IN  [columns |-> header,
                      rows |-> [k \in DOMAIN tokens |->
                                  [j \in 1..(width - leading) |->
                                      InferCell(tokens[k][j + leading],
                                                column(j + leading))]],
                      exc |-> ""]

\* a variant of SheetOf: to_excel with its default index=True, which puts the
\* row labels 0, 1, ... in a first column
SheetOfWithIndex(df) ==
    <<<<Cell("nan", "")>> \o [j \in DOMAIN df.columns |-> Cell("str", df.columns[j])]>>
    \o [k \in DOMAIN df.rows |-> <<Cell("number", IntToStr(k - 1))>> \o df.rows[k]]

\* df.to_excel(excel_file, index=False): the header row, then the rows
SheetOf(df) == <<[j \in DOMAIN df.columns |-> Cell("str", df.columns[j])]>> \o df.rows

\* lines 192-207
csv_to_excel(fsys, w, base_name) ==
    LET csv_file == SplitextRoot(base_name) \o ".csv"
        excel_file == SplitextRoot(base_name) \o ".xlsx"
        df == read_csv(fsys, csv_file)
    IN  IF df.exc = "FileNotFoundError"
        THEN [fs |-> fsys, out |-> << <<"warn_not_exist", csv_file>> >>, exc |-> ""]
        ELSE IF df.exc # "" \/ ~CanOpenForWriting(fsys, w, excel_file)
        THEN [fs |-> fsys, out |-> << <<"warn_convert", csv_file>> >>, exc |-> ""]
        ELSE [fs |-> WriteFile(fsys, excel_file, XlsxFile(SheetOf(df))),
              out |-> << <<"converted", excel_file>> >>,
              exc |-> ""]

-----------------------------------------------------------------------------
(* get_xml_domain.                                                         *)

\* lines 178-181: the text printed to the file from the i-th host on, until
\* a host without hostnames/hostname ends the loop
RECURSIVE DomainLinesFrom(_, _)
DomainLinesFrom(hostlist, i) ==
    IF i > Len(hostlist) THEN ""
    ELSE LET element == Find(hostlist[i], <<"hostnames", "hostname">>)
         IN  IF element = None THEN ""
             ELSE GetDefault(element, "name", "None") \o "\n"
                  \o DomainLinesFrom(hostlist, i + 1)

\* lines 161-183; the warning of lines 161-162 is not followed by a return
get_xml_domain(fsys, w, xml_path, output_file) ==
    LET warned == IF ~IsFile(fsys, xml_path)
                  THEN << <<"warn_not_exist", xml_path>> >> ELSE <<>>
        tree == ETparse(fsys, xml_path)
    IN  IF tree.exc = "ParseError"
        THEN [fs |-> fsys, out |-> warned \o << <<"warn_format", xml_path>> >>, exc |-> ""]
        ELSE IF tree.exc # ""
        THEN [fs |-> fsys, out |-> warned, exc |-> tree.exc]
        ELSE IF ~CanOpenForWriting(fsys, w, output_file)
        THEN [fs |-> fsys, out |-> << <<"warn_write", output_file>> >>, exc |-> ""]
        ELSE LET hostlist == FindAll(tree.root, <<"host">>)
             IN  [fs |-> WriteFile(fsys, output_file,
                                   TextFile(DomainLinesFrom(hostlist, 1))),
                  out |-> <<>>,
                  exc |-> IF \E i \in DOMAIN hostlist :
                                Find(hostlist[i], <<"hostnames", "hostname">>) = None
                          THEN "AttributeError" ELSE ""]

-----------------------------------------------------------------------------
(* The entry point (lines 210-224), one call at a time.                    *)

\* a variant of ShouldDerive: the spreadsheet is derived whatever was returned
ShouldDeriveAlways(name) == TRUE

\* line 221: `if csv_name:`
ShouldDerive(name) == name # ""

\* line 219
ExportCsv ==
    /\ pc = "export"
    /\ LET r == export_to_csv(fs, writable, all_hosts,
                              get_export_filename(xml_files[1], "csv", clock))
       IN  /\ fs' = r.fs
           /\ stdout' = stdout \o r.out
           /\ exc' = r.exc
           /\ csv_name' = r.ret
           /\ pc' = IF r.exc # "" THEN "crashed"
                    ELSE IF ShouldDerive(r.ret) THEN "derive" ELSE "done"
    /\ UNCHANGED <<writable, clock, xml_files, idx, all_hosts>>

\* line 222
CsvToExcel ==
    /\ pc = "derive"
    /\ LET r == csv_to_excel(fs, writable, csv_name)
       IN  /\ fs' = r.fs
           /\ stdout' = stdout \o r.out
           /\ exc' = r.exc
           /\ pc' = IF r.exc # "" THEN "crashed" ELSE "done"
    /\ UNCHANGED <<writable, clock, xml_files, idx, all_hosts, csv_name>>

\* line 220, were it not commented out
ExportJson ==
    /\ pc = "export_json"
    /\ LET r == export_to_json(fs, writable, all_hosts,
                               get_export_filename(xml_files[1], "json", clock))
       IN  /\ fs' = r.fs
           /\ stdout' = stdout \o r.out
           /\ exc' = r.exc
           /\ pc' = IF r.exc # "" THEN "crashed" ELSE "json_done"
    /\ UNCHANGED <<writable, clock, xml_files, idx, all_hosts, csv_name>>

\* line 224, were it not commented out
GetXmlDomain ==
    /\ pc = "domain"
    /\ LET r == get_xml_domain(fs, writable, xml_files[1], "test_domain.txt")
       IN  /\ fs' = r.fs
           /\ stdout' = stdout \o r.out
           /\ exc' = r.exc
           /\ pc' = IF r.exc # "" THEN "crashed" ELSE "domain_done"
    /\ UNCHANGED <<writable, clock, xml_files, idx, all_hosts, csv_name>>

-----------------------------------------------------------------------------
(* The entry point run on a list of paths.                                 *)

ScanA ==
    Root(<<E("host", {}, GoodHeader(1)
             \o <<E("ports", {}, <<E("port", {<<"portid", "443">>},
                                     <<ScriptOut("TLSv1.0 and weak ciphers enabled")>>)>>)>>)>>)

ScanB ==
    Root(<<E("host", {}, GoodHeader(2)
             \o <<E("ports", {},
                    <<E("port", {<<"portid", "443">>}, <<ScriptOut("TLSv1.1; TLSv1.0")>>),
                      E("port", {<<"portid", "80">>}, <<ScriptOut("TLSv1.2")>>),
                      E("port", {}, <<ScriptOut("TLSv1.1")>>)>>)>>),
           E("host", {}, <<E("address", {<<"addr", HostAddr(3)>>}, <<>>),
                           E("port", {<<"portid", "8443">>}, <<ScriptOut("TLSv1.0")>>)>>)>>)

\* the files present when the script starts; "missing.xml" is not among them
MainFs ==
    [p \in {"ssl_0625.xml", "scan_b.xml", "empty.xml", "broken.xml", "scans"} |->
        CASE p = "ssl_0625.xml" -> XmlFile(ScanA)
          [] p = "scan_b.xml" -> XmlFile(ScanB)
          [] p = "empty.xml" -> XmlFile(Root(<<>>))
          [] p = "broken.xml" -> MalformedFile
          [] p = "scans" -> Directory]

InputPaths == DOMAIN MainFs \cup {"missing.xml"}

Timestamps == {"20250625_120000", "20251231_235959"}

Init ==
    /\ fs = MainFs
    /\ writable \in BOOLEAN
    /\ clock \in Timestamps
    /\ pc = "aggregate"
    /\ \E n \in 1..MaxFiles : xml_files \in [1..n -> InputPaths]
    /\ idx = 0
    /\ all_hosts = <<>>
    /\ csv_name = ""
    /\ exc = ""
    /\ stdout = <<>>

Next == ParseFile \/ ExportCsv \/ CsvToExcel

Spec == Init /\ [][Next]_vars

-----------------------------------------------------------------------------
(* The exporters run on a record sequence.                                 *)

\* the host names an export is checked on: one with a comma, the empty one,
\* an NA string of pandas; the port ids: one with a leading zero, the
\* "unknown" sentinel
ExportHosts == {"web01", "a,b", "", "NA"}
ExportPorts == {"443", "0443", "unknown"}
ExportProtocols == {"TLSv1.0", "TLSv1.0 & TLSv1.1"}

ExportRecord(k, shape) ==
    [host |-> shape[1], ip_addr |-> HostAddr(k), port |-> shape[2], protocols |-> shape[3]]

InitExport ==
    /\ fs = MainFs
    /\ writable \in BOOLEAN
    /\ clock = "20250625_120000"
    /\ pc \in {"export", "export_json"}
    /\ xml_files = <<"ssl_0625.xml">>
    /\ idx = 1
    /\ \E n \in 0..MaxRecs :
          \E shapes \in [1..n -> ExportHosts \X ExportPorts \X ExportProtocols] :
              all_hosts = [k \in 1..n |-> ExportRecord(k, shapes[k])]
    /\ csv_name = ""
    /\ exc = ""
    /\ stdout = <<>>

NextExport == ExportCsv \/ CsvToExcel \/ ExportJson

SpecExport == InitExport /\ [][NextExport]_vars

-----------------------------------------------------------------------------
(* The domain dump run on one path.                                        *)

DomainFs(doc) ==
    [p \in {"scan.xml", "broken.xml", "scans"} |->
        CASE p = "scan.xml" -> XmlFile(doc)
          [] p = "broken.xml" -> MalformedFile
          [] p = "scans" -> Directory]

InitDomain ==
    /\ \E n \in 0..MaxHosts :
          \E shapes \in [1..n -> HostnameShapes \X AddressShapes] :
              fs = DomainFs(HostsDoc(shapes))
    /\ writable \in BOOLEAN
    /\ clock = "20250625_120000"
    /\ pc = "domain"
    /\ xml_files \in {<<"scan.xml">>, <<"broken.xml">>, <<"missing.xml">>}
    /\ idx = 0
    /\ all_hosts = <<>>
    /\ csv_name = ""
    /\ exc = ""
    /\ stdout = <<>>

NextDomain == GetXmlDomain

SpecDomain == InitDomain /\ [][NextDomain]_vars

-----------------------------------------------------------------------------
(* What the extraction claims speak of, stated on the document itself.     *)

TheDoc == fs["scan.xml"].root

\* parse_ssl_vulnerabilities has returned to its caller
Returned == pc = "export" /\ exc = ""

ChildrenTagged(e, tag) == SelectSeq(e.children, LAMBDA c : c.tag = tag)

RECURSIVE PreOrder(_)
RECURSIVE PreOrderIn(_, _)
PreOrderIn(children, i) ==
    IF i > Len(children) THEN <<>>
    ELSE PreOrder(children[i]) \o PreOrderIn(children, i + 1)
PreOrder(e) == <<e>> \o PreOrderIn(e.children, 1)

\* the port elements below a host, in document order
PortsInOrder(h) == SelectSeq(Tail(PreOrder(h)), LAMBDA e : e.tag = "port")

DirectHosts == ChildrenTagged(TheDoc, "host")

\* the names of the hostnames/hostname children of h, the addrs of its address
\* children
NamesOf(h) ==
    {GetDefault(hn, "name", "") :
        hn \in {x \in UNION {Range(ChildrenTagged(hs, "hostname")) :
                              hs \in Range(ChildrenTagged(h, "hostnames"))} :
                    HasAttr(x, "name")}}
AddrsOf(h) ==
    {GetDefault(a, "addr", "") :
        a \in {x \in Range(ChildrenTagged(h, "address")) : HasAttr(x, "addr")}}

HasMarker(output) == Contains(output, "TLSv1.0") \/ Contains(output, "TLSv1.1")

\* the port has a script child whose output contains a marker
SomeScriptMarked(p) ==
    \E s \in Range(ChildrenTagged(p, "script")) : HasMarker(GetDefault(s, "output", ""))

\* the output of the first script child of the port, "" without one
FirstScriptOutput(p) ==
    LET ss == ChildrenTagged(p, "script")
    IN  IF ss = <<>> THEN "" ELSE GetDefault(ss[1], "output", "")

\* the first script child of the port has an output that contains a marker
FirstScriptMarked(p) == HasMarker(FirstScriptOutput(p))

PortIdOf(p) == GetDefault(p, "portid", "unknown")

\* both lookups of lines 30-40 succeed on the host
LookupsSucceed(h) ==
    /\ Get(Find(h, <<"hostnames", "hostname">>), "name") # <<>>
    /\ Get(Find(h, <<"address">>), "addr") # <<>>

\* the records that carry a name or an address of the host
RecordsOf(h) ==
    SelectSeq(all_hosts, LAMBDA r : r.host \in NamesOf(h) \/ r.ip_addr \in AddrsOf(h))

PortIdsOf(ports) == [k \in DOMAIN ports |-> PortIdOf(ports[k])]
PortFieldsOf(records) == [k \in DOMAIN records |-> records[k].port]

\* C1: every record carries the name of a hostnames/hostname child and the addr
\* of an address child of one host element of the root, and the portid of a port
\* below that host with a script whose output contains TLSv1.0 or TLSv1.1; a
\* host without a named hostname or without an address with addr contributes no
\* record, whatever its ports hold.
C1_RecordsOnlyFromResolvedHosts ==
    Returned =>
        /\ \A k \in DOMAIN all_hosts :
              \E h \in Range(DirectHosts) :
                  /\ all_hosts[k].host \in NamesOf(h)
                  /\ all_hosts[k].ip_addr \in AddrsOf(h)
                  /\ \E p \in Range(PortsInOrder(h)) :
                        /\ PortIdOf(p) = all_hosts[k].port
                        /\ SomeScriptMarked(p)
        /\ \A h \in Range(DirectHosts) :
              (NamesOf(h) = {} \/ AddrsOf(h) = {}) => RecordsOf(h) = <<>>

\* a run where one host yields a record and another, with a marked port, lacks
\* its hostname or its address
C1_Witness ==
    /\ Returned
    /\ all_hosts # <<>>
    /\ \E h \in Range(DirectHosts) :
          /\ NamesOf(h) = {} \/ AddrsOf(h) = {}
          /\ \E p \in Range(PortsInOrder(h)) : SomeScriptMarked(p)

\* C2 as amended: for a host on which both lookups succeed, the records are
\* exactly one per descendant port whose FIRST script child has an output with
\* a marker, in document order of the ports, each with the host's name and
\* address.
C2_OneRecordPerFirstScriptMarkedPort ==
    Returned =>
        \A h \in Range(DirectHosts) :
            LookupsSucceed(h) =>
                /\ PortFieldsOf(RecordsOf(h))
                      = PortIdsOf(SelectSeq(PortsInOrder(h), FirstScriptMarked))
                /\ \A r \in Range(RecordsOf(h)) :
                      /\ r.host = Get(Find(h, <<"hostnames", "hostname">>), "name")[1]
                      /\ r.ip_addr = Get(Find(h, <<"address">>), "addr")[1]

\* C2 as claimed: one record per descendant port that has a script child (any
\* of them) whose output contains a marker.
C2_OneRecordPerMarkedPort ==
    Returned =>
        \A h \in Range(DirectHosts) :
            LookupsSucceed(h) =>
                PortFieldsOf(RecordsOf(h))
                    = PortIdsOf(SelectSeq(PortsInOrder(h), SomeScriptMarked))

\* a run that returned a record for a port below another element than the
\* ports wrapper, from a host that also has a port whose only marked script is
\* not its first
C2_Witness ==
    /\ Returned
    /\ all_hosts # <<>>
    /\ \E h \in Range(DirectHosts) :
          /\ LookupsSucceed(h)
          /\ \E p \in Range(PortsInOrder(h)) :
                SomeScriptMarked(p) /\ ~FirstScriptMarked(p)
          /\ \E p \in Range(PortsInOrder(h)) :
                FirstScriptMarked(p) /\ p \notin Range(FindAll(h, <<"ports", "port">>))

\* the ports that yield a record, over the whole document, in order
RECURSIVE EmittingPortsFrom(_, _)
EmittingPortsFrom(hostlist, i) ==
    IF i > Len(hostlist) THEN <<>>
    ELSE (IF LookupsSucceed(hostlist[i])
             THEN SelectSeq(PortsInOrder(hostlist[i]), FirstScriptMarked)
             ELSE <<>>)
         \o EmittingPortsFrom(hostlist, i + 1)
EmittingPorts == EmittingPortsFrom(DirectHosts, 1)

\* C3: the protocols field of the k-th record is "TLSv1.0" exactly when only
\* that marker occurs in the script output of the k-th emitting port,
\* "TLSv1.1" exactly when only that one occurs, and "TLSv1.0 & TLSv1.1" exactly
\* when both occur, wherever they stand in the output.
C3_ProtocolsField ==
    Returned =>
        /\ Len(all_hosts) = Len(EmittingPorts)
        /\ \A k \in DOMAIN all_hosts :
              LET output == FirstScriptOutput(EmittingPorts[k])
                  has10 == Contains(output, "TLSv1.0")
                  has11 == Contains(output, "TLSv1.1")
                  protocols == all_hosts[k].protocols
              IN  /\ protocols \in {"TLSv1.0", "TLSv1.1", "TLSv1.0 & TLSv1.1"}
                  /\ protocols = "TLSv1.0" <=> (has10 /\ ~has11)
                  /\ protocols = "TLSv1.1" <=> (has11 /\ ~has10)
                  /\ protocols = "TLSv1.0 & TLSv1.1" <=> (has10 /\ has11)

\* a run that returned "TLSv1.0 & TLSv1.1" for an output in which TLSv1.1 stands
\* before TLSv1.0
C3_Witness ==
    /\ Returned
    /\ \E k \in DOMAIN all_hosts :
          /\ all_hosts[k].protocols = "TLSv1.0 & TLSv1.1"
          /\ k \in DOMAIN EmittingPorts
          /\ FirstScriptOutput(EmittingPorts[k]) = "TLSv1.1TLSv1.0"

-----------------------------------------------------------------------------
(* What the batch, export and entry-point claims speak of.                 *)

\* the records of the first n paths of the list, file after file
RECURSIVE PerFileRecords(_, _)
PerFileRecords(paths, n) ==
    IF n = 0 THEN <<>>
    ELSE PerFileRecords(paths, n - 1)
         \o parse_ssl_vulnerabilities(MainFs, paths[n]).hosts

\* C4: at every moment of the batch, the aggregated sequence is the
\* concatenation, in list order, of the extraction results of the paths
\* processed so far, each in its own order; a path listed twice contributes
\* twice.
C4_ConcatenationInPathOrder ==
    all_hosts = PerFileRecords(xml_files, idx)

\* the batch of a list that names the same path twice has ended, with that
\* file's records twice, and so has the batch of two different files with
\* records
C4_Witness ==
    /\ pc = "export"
    /\ Len(xml_files) = 2
    /\ xml_files[1] = xml_files[2]
    /\ Len(all_hosts) = 4
    /\ all_hosts[1] = all_hosts[3]
    /\ all_hosts[1] # all_hosts[2]

\* the path names no regular file, or a file that is not well-formed XML
BadPath(path) == path \notin DOMAIN MainFs \/ MainFs[path].kind # "xml"

\* the number of records in the well-formed files among the first n paths
RECURSIVE ValidCount(_, _)
ValidCount(paths, n) ==
    IF n = 0 THEN 0
    ELSE ValidCount(paths, n - 1)
         + (IF BadPath(paths[n]) THEN 0
            ELSE Len(ExtractRecords(MainFs[paths[n]].root)))

Warnings == SelectSeq(stdout, LAMBDA m : m[1] \in {"warn_not_exist", "warn_format"})

\* C5: no exception escapes from the batch, whatever the paths name: a path
\* that names no regular file or a malformed one adds no record and one
\* warning, every path of the list is processed, and the record count is the
\* sum of the counts of the well-formed files.
C5_BadPathsContributeNothing ==
    /\ idx < Len(xml_files) => (pc = "aggregate" /\ exc = "")
    /\ Len(all_hosts) = ValidCount(xml_files, idx)
    /\ Len(Warnings) = Cardinality({k \in 1..idx : BadPath(xml_files[k])})

\* the batch has ended, its first path was bad and a later one gave records
C5_Witness ==
    /\ pc = "export"
    /\ BadPath(xml_files[1])
    /\ all_hosts # <<>>
    /\ \E k \in DOMAIN xml_files : xml_files[k] = "missing.xml"

\* export_to_csv has returned to its caller
CsvExportReturned == pc \in {"derive", "done"}

\* the path export_to_csv was called with
CsvPath == get_export_filename(xml_files[1], "csv", clock)

\* the lines of a text that ends with a line feed
FileLines(text) ==
    LET pieces == Split(text, "\n")
    IN  IF pieces[Len(pieces)] = "" THEN SubSeq(pieces, 1, Len(pieces) - 1) ELSE pieces

\* C6: when export_to_csv returns, an empty sequence has left the file system
\* as it was and returned ''; N >= 1 records have written N + 1 lines, the
\* header and line i,host,ip_addr,port,protocols for the i-th record, and
\* returned the output path.
C6_CsvLines ==
    CsvExportReturned =>
        IF all_hosts = <<>>
        THEN csv_name = "" /\ fs = MainFs
        ELSE /\ csv_name = CsvPath
             /\ Exists(fs, CsvPath)
             /\ fs[CsvPath].kind = "text"
             /\ LET lines == FileLines(fs[CsvPath].text)
                IN  /\ Len(lines) = Len(all_hosts) + 1
                    /\ lines[1] = "ID,Host,IP,Port,Vulnerable Protocols"
                    /\ \A i \in DOMAIN all_hosts :
                          lines[i + 1] = IntToStr(i) \o "," \o all_hosts[i].host
                                         \o "," \o all_hosts[i].ip_addr
                                         \o "," \o all_hosts[i].port
                                         \o "," \o all_hosts[i].protocols

\* two records were exported
C6_Witness ==
    /\ pc = "derive"
    /\ Len(all_hosts) = 2
    /\ Exists(fs, CsvPath)

\* csv_to_excel has returned after an export that wrote a file
Derived == pc = "done" /\ csv_name # ""

ExcelPath == SplitextRoot(csv_name) \o ".xlsx"

CellTexts(row) == [j \in DOMAIN row |-> row[j].text]

\* the workbook holds the header and one row per record with the record's
\* values behind its ordinal
RoundTrips ==
    /\ Exists(fs, ExcelPath)
    /\ fs[ExcelPath].kind = "xlsx"
    /\ LET sheet == fs[ExcelPath].sheet
       IN  /\ Len(sheet) = Len(all_hosts) + 1
           /\ CellTexts(sheet[1]) = CsvHeaders
           /\ \A i \in DOMAIN all_hosts :
                 CellTexts(sheet[i + 1])
                    = <<IntToStr(i), all_hosts[i].host, all_hosts[i].ip_addr,
                        all_hosts[i].port, all_hosts[i].protocols>>

\* the text comes back from read_csv as it went in: no separator, line break
\* or quote in it, not an NA string, not a number written with leading zeros
ReadsBackUnchanged(v) ==
    /\ ~Contains(v, ",")
    /\ ~Contains(v, "\n")
    /\ ~Contains(v, "\"")
    /\ v \notin NaValues
    /\ IsDigits(v) => Canonical(v) = v

PlainRecord(r) ==
    /\ ReadsBackUnchanged(r.host)
    /\ ReadsBackUnchanged(r.ip_addr)
    /\ ReadsBackUnchanged(r.port)
    /\ ReadsBackUnchanged(r.protocols)

\* C7 as amended: N >= 1 records whose fields read back unchanged are, after
\* export_to_csv and csv_to_excel, N rows of the workbook with the same values
\* in the same order, and no index column.
C7_RoundTripOfPlainRecords ==
    (Derived /\ \A r \in Range(all_hosts) : PlainRecord(r)) => RoundTrips

\* C7 as claimed: every record sequence comes back.
C7_RoundTripOfAllRecords ==
    Derived => RoundTrips

\* two plain records, one with a numeric port and one with the sentinel, went
\* through both steps
C7_Witness ==
    /\ Derived
    /\ Len(all_hosts) = 2
    /\ \A r \in Range(all_hosts) : PlainRecord(r)
    /\ all_hosts[1].port = "443"
    /\ all_hosts[2].port = "unknown"
    /\ Exists(fs, ExcelPath)

\* C8: a failure to open the output file of a non-empty export is caught in
\* the exporter; no exception reaches the caller.
C8_WriteFailureCaught ==
    (all_hosts # <<>> /\ ~writable /\ pc \notin {"export", "export_json"}) =>
        (exc = "" /\ pc # "crashed")

\* C9: from get_xml_domain only the failure of a host without
\* hostnames/hostname reaches the caller; a path that names no file and a
\* malformed file end the call with a warning and without exception.
C9_OnlyMissingHostnamePropagates ==
    pc \in {"domain_done", "crashed"} =>
        LET xml_path == xml_files[1]
        IN  /\ exc # "" =>
                /\ IsFile(fs, xml_path)
                /\ fs[xml_path].kind = "xml"
                /\ \E h \in Range(ChildrenTagged(fs[xml_path].root, "host")) :
                      Find(h, <<"hostnames", "hostname">>) = None
            /\ (~IsFile(fs, xml_path) \/ fs[xml_path].kind = "malformed") =>
                /\ exc = ""
                /\ \E k \in DOMAIN stdout :
                      stdout[k][1] \in {"warn_not_exist", "warn_format"}

OutputFiles(fsys) == {p \in DOMAIN fsys : fsys[p].kind \in {"text", "json", "xlsx"}}

\* C10: the steps run in the order aggregate, CSV export, spreadsheet
\* derivation; csv_to_excel starts only from an export_to_csv that returned a
\* non-empty path, with that CSV file written from a non-empty sequence; an
\* empty aggregated sequence leaves neither a CSV nor a spreadsheet file.
C10_PipelineOrder ==
    [][ /\ (pc' = "export" /\ pc # "export") => (pc = "aggregate" /\ idx' = Len(xml_files))
        /\ (pc' = "derive" /\ pc # "derive") =>
              /\ pc = "export"
              /\ csv_name' # ""
              /\ Exists(fs', csv_name')
              /\ all_hosts # <<>>
        /\ (pc = "derive" /\ pc' # "derive") =>
              (csv_name # "" /\ Exists(fs, csv_name) /\ fs[csv_name].kind = "text")
        /\ (all_hosts' = <<>> /\ pc' \in {"derive", "done", "crashed"}) =>
              (pc' = "done" /\ OutputFiles(fs') = {})
        /\ pc' = "done" => pc \in {"export", "derive"} ]_vars

\* a run that derived the spreadsheet, and so went through all three steps
C10_Witness ==
    /\ pc = "done"
    /\ csv_name # ""
    /\ \E p \in OutputFiles(fs) : fs[p].kind = "xlsx"
    /\ \E p \in OutputFiles(fs) : fs[p].kind = "text"

====
